---- MODULE Spec2Model ----
(***************************************************************************)
(* A model of the streaming binlog decoder of mysql-toolset:               *)
(*   binlog/parser.go   NewParser, readEventHeader, ReadEvent, SkipEvent   *)
(*   binlog/events.go   NewBinLogEventHeader, the variant decoders,        *)
(*                      NewBinLogEvent                                     *)
(*   binlog/consts.go   the framing constants                              *)
(*                                                                         *)
(* Bytes are integers 0..255 and buffers are sequences of bytes.  TLC's    *)
(* integers are 32-bit signed, so a uint32 is kept as two 16-bit limbs     *)
(* <<lo, hi>> and a uint64 as four, least significant limb first; the      *)
(* arithmetic the code does on them (EventSize - 19, the comparison with   *)
(* cap(text), the seek offset) is done on the limbs, modulo 2^32.          *)
(*                                                                         *)
(* encoding/binary.Read is modelled as the Go toolchain of the source's    *)
(* date (Go 1.12/1.13) behaves: given a pointer or a slice it fills it     *)
(* from the reader; given a plain integer VALUE (events.go lines 118, 139, *)
(* 143) it consumes the integer's size from the reader and stores nothing. *)
(***************************************************************************)
EXTENDS Integers, Sequences, FiniteSets, TLC

VARIABLES stream, pos, phase, text, textLen, textCap, fde, last, held

vars == <<stream, pos, phase, text, textLen, textCap, fde, last, held>>

(***************************************************************************)
(* Program constants.                                                      *)
(***************************************************************************)
BINLOG_EVENT_HEADER_LEN == 19
QUERY_EVENT_POST_HEADER_LEN == 13
BINLOG_CHECKSUM_LEN == 4
BINLOG_CHECKSUM_ALG_LEN == 1
BINLOG_CHECKSUM_ALG_OFF == 0
BINLOG_CHECKSUM_ALG_CRC32 == 1
BINLOG_CHECKSUM_ALG_END == 2
QUERY_EVENT == 2
ROTATE_EVENT == 4
FORMAT_DESCRIPTION_EVENT == 15
XID_EVENT == 16
PREVIOUS_GTIDS_LOG_EVENT == 35
InitialTextCap == 1024
ServerVersionLen == 50
FdeFixedLen == 2 + 50 + 4 + 1
GtidSetLen == 16 + 8 + 8 + 8
Limb == 256 * 256

(***************************************************************************)
(* Fixed-width unsigned integers as 16-bit limbs.                          *)
(***************************************************************************)
Min(a, b) == IF a < b THEN a ELSE b

\* The uint32 with the small value n (n < 2^31).
U32(n) == <<n % Limb, n \div Limb>>

\* a - b modulo 2^32, as Go's uint32 subtraction.
SubU32(a, b) ==
  LET lo == a[1] - b[1]
      borrow == IF lo < 0 THEN 1 ELSE 0
      hi == a[2] - b[2] - borrow
  IN  << (lo + Limb) % Limb, (hi + Limb) % Limb >>

LtU32(a, b) == a[2] < b[2] \/ (a[2] = b[2] /\ a[1] < b[1])

\* A uint32 known to be below 2^31 as an integer.
IntOf(a) == a[1] + Limb * a[2]

FitsInt(a) == a[2] < 32768

\* binary.LittleEndian decoding of the bytes b[i..] (1-based).
LE16(b, i) == b[i] + 256 * b[i + 1]
LE32(b, i) == <<LE16(b, i), LE16(b, i + 2)>>
LE64(b, i) == <<LE16(b, i), LE16(b, i + 2), LE16(b, i + 4), LE16(b, i + 6)>>

\* A plausible slip: reads at a given offset (ReadAt), which leave the
\* file offset where it was.
AddPos_Stays(p, n) == p

\* The file offset (an int64) as <<lo, hi>> with an unbounded high limb.
AddPos(p, n) ==
  LET lo == p[1] + n[1]
  IN  << lo % Limb, p[2] + n[2] + (lo \div Limb) >>

(***************************************************************************)
(* os.File.Read on a regular file of content `stream` at offset p, into a  *)
(* slice of length n (a uint32): it returns the bytes that are there, at   *)
(* most n of them, and io.EOF when n > 0 and none is left.                 *)
(***************************************************************************)
Remaining(p) ==
  IF p[2] = 0 /\ p[1] < Len(stream) THEN Len(stream) - p[1] ELSE 0

FileReadCount(p, n) ==
  IF FitsInt(n) THEN Min(IntOf(n), Remaining(p)) ELSE Remaining(p)

\* A plausible slip: the end of the file not reported.
FileReadErr_NoEOF(p, n) == "nil"

FileReadErr(p, n) ==
  IF n # U32(0) /\ FileReadCount(p, n) = 0 THEN "EOF" ELSE "nil"

FileReadData(p, n) == SubSeq(stream, p[1] + 1, p[1] + FileReadCount(p, n))

\* The backing array after a Read stored `data` at its start.
Overwrite(arr, data) == data \o SubSeq(arr, Len(data) + 1, Len(arr))

\* The bytes of the slice arr[0:n]; bytes never written are zero.
Bytes(arr, n) == [i \in 1..n |-> IF i <= Len(arr) THEN arr[i] ELSE 0]

(***************************************************************************)
(* bytes.Reader + binary.Read of n bytes at reader offset off of buffer b: *)
(* io.ReadFull gives io.EOF when nothing is left, io.ErrUnexpectedEOF when *)
(* fewer than n bytes are, and a read of zero bytes always succeeds.       *)
(***************************************************************************)
RdErr(b, off, n) ==
  IF n = 0 THEN "nil"
  ELSE IF off >= Len(b) THEN "EOF"
  ELSE IF Len(b) - off < n THEN "unexpected EOF"
  ELSE "nil"

RdOff(b, off, n) == Min(Len(b), off + n)

(***************************************************************************)
(* Values.                                                                 *)
(***************************************************************************)
NoHeader == [isNil |-> TRUE]

NoPayload == [isNil |-> TRUE]

NoEvent == [type |-> "nil"]

\* new(FormatDescriptionEvent): the zero value.
NewFde == [alloc |-> TRUE, header |-> NoHeader, payload |-> NoPayload,
           ChecksumAlg |-> BINLOG_CHECKSUM_ALG_OFF]

\* parser.fde = nil
NilFde == [alloc |-> FALSE, header |-> NoHeader, payload |-> NoPayload,
           ChecksumAlg |-> BINLOG_CHECKSUM_ALG_OFF]

\* The result of a decoder: kind is "ok", "err" (an error is returned) or
\* "panic"; alg is the checksum algorithm a Format-Description decode
\* yields; consumed is the offset its bytes.Reader stopped at; selRead says
\* whether the checksum selector byte was indexed.
Decoded(kind, err, ev, alg, consumed, selRead) ==
  [kind |-> kind, err |-> err, ev |-> ev, alg |-> alg,
   consumed |-> consumed, selRead |-> selRead]

NewBinLogEventHeader(b) ==
  [isNil |-> FALSE,
   Timestamp |-> LE32(b, 1),
   EventType |-> b[5],
   ServerId |-> LE32(b, 6),
   EventSize |-> LE32(b, 10),
   LogPos |-> LE32(b, 14),
   Flags |-> LE16(b, 18)]

PayloadSize(header) == SubU32(header.EventSize, U32(BINLOG_EVENT_HEADER_LEN))

(***************************************************************************)
(* github.com/hashicorp/go-version on dotted numeric strings               *)
(* ("major.minor.patch"): NewVersion fails on anything that does not start *)
(* with digits (the empty string, a string holding NUL bytes); segments    *)
(* are compared as numbers, missing ones counting as zero.                 *)
(***************************************************************************)
IsDigit(c) == c >= 48 /\ c <= 57

RECURSIVE SplitDots(_)
SplitDots(s) ==
  IF \A i \in 1..Len(s) : s[i] # 46 THEN <<s>>
  ELSE LET k == CHOOSE i \in 1..Len(s) :
                  s[i] = 46 /\ \A j \in 1..(i - 1) : s[j] # 46
       IN  <<SubSeq(s, 1, k - 1)>> \o SplitDots(SubSeq(s, k + 1, Len(s)))

RECURSIVE Atoi(_)
Atoi(s) ==
  IF s = <<>> THEN 0 ELSE 10 * Atoi(SubSeq(s, 1, Len(s) - 1)) + (s[Len(s)] - 48)

VersionParses(s) ==
  \A i \in 1..Len(SplitDots(s)) :
     LET seg == SplitDots(s)[i]
     IN  seg # <<>> /\ \A j \in 1..Len(seg) : IsDigit(seg[j])

Segments(s) == [i \in 1..Len(SplitDots(s)) |-> Atoi(SplitDots(s)[i])]

SegAt(v, i) == IF i <= Len(v) THEN v[i] ELSE 0

RECURSIVE CompareFrom(_, _, _)
CompareFrom(a, b, i) ==
  IF i > Len(a) /\ i > Len(b) THEN 0
  ELSE IF SegAt(a, i) < SegAt(b, i) THEN -1
  ELSE IF SegAt(a, i) > SegAt(b, i) THEN 1
  ELSE CompareFrom(a, b, i + 1)

LexicalFrom(a, b) ==
  LET n == Min(Len(a), Len(b))
      d == {i \in 1..n : a[i] # b[i]}
  IN  IF d = {} THEN Len(a) >= Len(b)
      ELSE LET k == CHOOSE i \in d : \A j \in d : i <= j
           IN  a[k] > b[k]

\* A plausible slip: the versions compared as strings.
GreaterThanOrEqual_Lexical(s, floor) == LexicalFrom(s, floor)

\* version.Must(version.NewVersion(s)).GreaterThanOrEqual(
\*   version.Must(version.NewVersion(floor)))
GreaterThanOrEqual(s, floor) ==
  CompareFrom(Segments(s), Segments(floor), 1) >= 0

\* "5.6.1"
ChecksumVersionFloor == <<53, 46, 54, 46, 49>>

(***************************************************************************)
(* The variant decoders.  Each gets the header, the backing array of the   *)
(* parser's buffer and the length n of the slice handed to it.             *)
(***************************************************************************)
\* A plausible slip: the header left out of the event.
UnknownEv_NilHeader(header) == [type |-> "Unknown", header |-> NoHeader]

\* &UnknownBinLogEvent{header}
UnknownEv(header) == [type |-> "Unknown", header |-> header]

XidEv(header, xid) == [type |-> "Xid", header |-> header, xid |-> xid]

FdeEv(header, payload, alg) ==
  [type |-> "FormatDescription", header |-> header, payload |-> payload,
   ChecksumAlg |-> alg]

PrevGtidsEv(header, sets) ==
  [type |-> "PreviousGtids", header |-> header, gtidSets |-> sets]

Off == BINLOG_CHECKSUM_ALG_OFF

\* The server version: the 50-byte field up to its first zero byte; the
\* whole field when that leaves the empty string.
TrimVersion(sversion) ==
  LET zeros == {i \in 1..Len(sversion) : sversion[i] = 0}
      trimmed == IF zeros = {} THEN <<>>
                 ELSE SubSeq(sversion, 1,
                             (CHOOSE i \in zeros : \A j \in zeros : i <= j) - 1)
  IN  IF Len(trimmed) = 0 THEN sversion ELSE trimmed

\* The length EventTypeHeaderLength is made with: size, less the selector
\* and the checksum when the version has them, less the fixed fields, all in
\* uint32.
TableLen(size, hasSum) ==
  SubU32(IF hasSum
         THEN SubU32(size, U32(BINLOG_CHECKSUM_LEN + BINLOG_CHECKSUM_ALG_LEN))
         ELSE size,
         U32(FdeFixedLen))

newFormatDescriptionEvent(header, arr, n) ==
  LET t == Bytes(arr, n)
      size == PayloadSize(header)
      e1 == RdErr(t, 0, 2)
      o1 == RdOff(t, 0, 2)
      e2 == RdErr(t, o1, ServerVersionLen)
      o2 == RdOff(t, o1, ServerVersionLen)
      sversion == SubSeq(t, o1 + 1, o2)
      ver == TrimVersion(sversion)
      e3 == RdErr(t, o2, 4)
      o3 == RdOff(t, o2, 4)
      e4 == RdErr(t, o3, 1)
      o4 == RdOff(t, o3, 1)
      hasSum == GreaterThanOrEqual(ver, ChecksumVersionFloor)
      sel == t[n - BINLOG_CHECKSUM_LEN - BINLOG_CHECKSUM_ALG_LEN + 1]
      alg == IF hasSum THEN sel ELSE Off
      tableLen == TableLen(size, hasSum)
      e5 == IF FitsInt(tableLen) THEN RdErr(t, o4, IntOf(tableLen))
            ELSE IF o4 >= n THEN "EOF" ELSE "unexpected EOF"
      o5 == IF FitsInt(tableLen) THEN RdOff(t, o4, IntOf(tableLen)) ELSE n
      payload == [isNil |-> FALSE,
                  BinlogVersion |-> 0,
                  MySQLServerVersion |-> ver,
                  CreateTimestamp |-> U32(0),
                  EventHeaderLength |-> 0,
                  EventTypeHeaderLength |-> SubSeq(t, o4 + 1, o5)]
  IN  IF size # U32(n)
        THEN Decoded("panic", "Invalid FormatDescriptionEventPayload len",
                     NoEvent, Off, 0, FALSE)
      ELSE IF e1 # "nil" THEN Decoded("err", e1, NoEvent, Off, o1, FALSE)
      ELSE IF e2 # "nil" THEN Decoded("err", e2, NoEvent, Off, o2, FALSE)
      ELSE IF e3 # "nil" THEN Decoded("err", e3, NoEvent, Off, o3, FALSE)
      ELSE IF e4 # "nil" THEN Decoded("err", e4, NoEvent, Off, o4, FALSE)
      ELSE IF ~VersionParses(ver)
        THEN Decoded("panic", "Malformed version", NoEvent, Off, o4, FALSE)
      ELSE IF hasSum /\ alg >= BINLOG_CHECKSUM_ALG_END
        THEN Decoded("panic", "Invalid checksum algorithm", NoEvent, Off, o4, TRUE)
      ELSE IF e5 # "nil" THEN Decoded("err", e5, NoEvent, Off, o5, hasSum)
      ELSE Decoded("ok", "nil", FdeEv(header, payload, alg), alg, o5, hasSum)

newXidEventPayload(header, arr, n) ==
  LET t == Bytes(arr, n)
      e == RdErr(t, 0, 8)
      o == RdOff(t, 0, 8)
  IN  IF PayloadSize(header) # U32(n)
        THEN Decoded("panic", "Invalid XidEventPayload len", NoEvent, Off, 0, FALSE)
      ELSE IF e # "nil" THEN Decoded("err", e, NoEvent, Off, o, FALSE)
      ELSE Decoded("ok", "nil", XidEv(header, LE64(t, 1)), Off, o, FALSE)

GtidSetAt(t, o) ==
  [Gtid |-> SubSeq(t, o + 1, o + 16),
   Interval |-> LE64(t, o + 17),
   From |-> LE64(t, o + 25),
   To |-> LE64(t, o + 33)]

\* make([]GTIDSet, count) for a count of 2^32 entries or more (160 GiB and
\* up, or a negative length) ends the process.
newPreviousGtidsLogEvent(header, arr, n, fdeIn) ==
  LET t == Bytes(arr, n)
      e1 == RdErr(t, 0, 8)
      o1 == RdOff(t, 0, 8)
      count == LE64(t, 1)
      huge == count[3] # 0 \/ count[4] # 0
      cnt == count[1]
      fits == count[2] = 0 /\ cnt * GtidSetLen <= n - o1
      e2 == IF fits THEN "nil"
            ELSE IF o1 >= n THEN "EOF" ELSE "unexpected EOF"
      o2 == IF fits THEN o1 + cnt * GtidSetLen ELSE n
      sets == [i \in 1..cnt |-> GtidSetAt(t, o1 + (i - 1) * GtidSetLen)]
  IN  IF e1 # "nil" THEN Decoded("err", e1, NoEvent, Off, o1, FALSE)
      ELSE IF huge
        THEN Decoded("panic", "makeslice: len out of range", NoEvent, Off, o1, FALSE)
      ELSE IF e2 # "nil" THEN Decoded("err", e2, NoEvent, Off, o2, FALSE)
      ELSE Decoded("ok", "nil", PrevGtidsEv(header, sets), Off, o2, FALSE)

(***************************************************************************)
(* The Query decoder and its status-variable scan.                         *)
(***************************************************************************)
Q_FLAGS2_CODE == 0
Q_SQL_MODE_CODE == 1
Q_CATALOG == 2
Q_AUTO_INCREMENT == 3
Q_CHARSET_CODE == 4
Q_TIME_ZONE_CODE == 5
Q_CATALOG_NZ_CODE == 6
Q_LC_TIME_NAMES_CODE == 7
Q_CHARSET_DATABASE_CODE == 8
Q_TABLE_MAP_FOR_UPDATE_CODE == 9
Q_MASTER_DATA_WRITTEN_CODE == 10
Q_INVOKERS == 11
Q_UPDATED_DB_NAMES == 12
Q_MICROSECONDS == 13

QueryEv(header, postHeader, payload) ==
  [type |-> "Query", header |-> header, postHeader |-> postHeader,
   payload |-> payload]

newQueryEventPostHeader(b) ==
  [SlaveProxyId |-> LE32(b, 1),
   ExecutionTime |-> LE32(b, 5),
   SchemaLength |-> b[9],
   ErrorCode |-> LE16(b, 10),
   StatusVarsLength |-> LE16(b, 12)]

\* payload.StatusVars[key] = val on a Go map.
Put(m, key, val) ==
  [k \in (DOMAIN m) \cup {key} |-> IF k = key THEN val ELSE m[k]]

\* The state of the scan: reader offset off, counted bytes n, the map.
Scan(kind, err, off, n, m) ==
  [kind |-> kind, err |-> err, off |-> off, n |-> n, vars |-> m]

\* One fixed-width value of w bytes read at off and stored as val.
FixedVar(t, st, key, w, val) ==
  IF RdErr(t, st.off, w) # "nil"
    THEN Scan("err", RdErr(t, st.off, w), RdOff(t, st.off, w), st.n, st.vars)
  ELSE Scan("ok", "nil", st.off + w, st.n + w, Put(st.vars, key, val))

\* A 1-byte length, then (length + extra) bytes, the sum taken in uint8 as
\* make([]byte, length+1) takes it; n advances by 1 + length + extra.
LengthVar(t, st, key, extra) ==
  LET e1 == RdErr(t, st.off, 1)
      o1 == RdOff(t, st.off, 1)
      length == t[o1]
      w == (length + extra) % 256
      e2 == RdErr(t, o1, w)
      o2 == RdOff(t, o1, w)
  IN  IF e1 # "nil" THEN Scan("err", e1, o1, st.n, st.vars)
      ELSE IF e2 # "nil" THEN Scan("err", e2, o2, st.n, st.vars)
      ELSE Scan("ok", "nil", o2, st.n + 1 + length + extra,
                Put(st.vars, key, SubSeq(t, o1 + 1, o2)))

\* Q_INVOKERS: length + username, length + hostname.
InvokersVar(t, st) ==
  LET e1 == RdErr(t, st.off, 1)
      o1 == RdOff(t, st.off, 1)
      e2 == RdErr(t, o1, t[o1])
      o2 == RdOff(t, o1, t[o1])
      e3 == RdErr(t, o2, 1)
      o3 == RdOff(t, o2, 1)
      e4 == RdErr(t, o3, t[o3])
      o4 == RdOff(t, o3, t[o3])
  IN  IF e1 # "nil" THEN Scan("err", e1, o1, st.n, st.vars)
      ELSE IF e2 # "nil" THEN Scan("err", e2, o2, st.n, st.vars)
      ELSE IF e3 # "nil" THEN Scan("err", e3, o3, st.n, st.vars)
      ELSE IF e4 # "nil" THEN Scan("err", e4, o4, st.n, st.vars)
      ELSE Scan("ok", "nil", o4, st.n + 1 + (o2 - o1) + 1 + (o4 - o3),
                Put(st.vars, Q_INVOKERS,
                    <<SubSeq(t, o1 + 1, o2), SubSeq(t, o3 + 1, o4)>>))

\* Q_UPDATED_DB_NAMES: `left` NUL-terminated strings read byte by byte into
\* buf, a buffer of svl bytes: index j = svl is out of range.
RECURSIVE DbNames(_, _, _, _, _)
DbNames(t, st, svl, left, names) ==
  IF left = 0
    THEN Scan("ok", "nil", st.off, st.n + 1, Put(st.vars, Q_UPDATED_DB_NAMES, names))
  ELSE
    LET zs == {k \in (st.off + 1)..Len(t) : t[k] = 0}
        jEOF == Len(t) - st.off
        jZero == IF zs = {} THEN jEOF
                 ELSE (CHOOSE k \in zs : \A m \in zs : k <= m) - st.off - 1
    IN  IF jZero < jEOF /\ jZero < svl
          THEN DbNames(t, [st EXCEPT !.off = st.off + jZero + 1,
                                      !.n = st.n + jZero + 1],
                       svl, left - 1,
                       Append(names, SubSeq(t, st.off + 1, st.off + jZero)))
        ELSE IF svl <= jEOF
          THEN Scan("panic", "index out of range", st.off + svl, st.n, st.vars)
        ELSE Scan("err", "EOF", Len(t), st.n, st.vars)

DbNamesVar(t, st, svl) ==
  LET e1 == RdErr(t, st.off, 1)
      o1 == RdOff(t, st.off, 1)
  IN  IF e1 # "nil" THEN Scan("err", e1, o1, st.n, st.vars)
      ELSE DbNames(t, [st EXCEPT !.off = o1], svl, t[o1], <<>>)

\* The body of the switch for one entry whose tag byte has been read.
StatusVar(t, st, svl, key) ==
  LET o == st.off
  IN  CASE key = Q_FLAGS2_CODE \/ key = Q_MASTER_DATA_WRITTEN_CODE ->
             FixedVar(t, st, key, 4, LE32(t, o + 1))
        [] key = Q_SQL_MODE_CODE \/ key = Q_TABLE_MAP_FOR_UPDATE_CODE ->
             FixedVar(t, st, key, 8, LE64(t, o + 1))
        [] key = Q_CATALOG -> LengthVar(t, st, key, 1)
        [] key = Q_AUTO_INCREMENT ->
             FixedVar(t, st, key, 4, <<LE16(t, o + 1), LE16(t, o + 3)>>)
        [] key = Q_CHARSET_CODE ->
             FixedVar(t, st, key, 6,
                      <<LE16(t, o + 1), LE16(t, o + 3), LE16(t, o + 5)>>)
        [] key = Q_TIME_ZONE_CODE \/ key = Q_CATALOG_NZ_CODE ->
             LengthVar(t, st, key, 0)
        [] key = Q_LC_TIME_NAMES_CODE \/ key = Q_CHARSET_DATABASE_CODE ->
             FixedVar(t, st, key, 2, LE16(t, o + 1))
        [] key = Q_UPDATED_DB_NAMES -> DbNamesVar(t, st, svl)
        [] key = Q_INVOKERS -> InvokersVar(t, st)
        [] key = Q_MICROSECONDS ->
             FixedVar(t, st, key, 3, SubSeq(t, o + 1, o + 3))
        [] OTHER -> st

\* for n := 0; n < int(postHeader.StatusVarsLength); { ... }
RECURSIVE StatusVars(_, _, _)
StatusVars(t, st, svl) ==
  IF st.kind # "ok" \/ st.n >= svl THEN st
  ELSE IF RdErr(t, st.off, 1) # "nil"
    THEN Scan("err", RdErr(t, st.off, 1), st.off, st.n, st.vars)
  ELSE StatusVars(t,
                  StatusVar(t, [st EXCEPT !.off = st.off + 1, !.n = st.n + 1],
                            svl, t[st.off + 1]),
                  svl)

EmptyMap == [k \in {} |-> 0]

\* The rest of newQueryEventPayload once the scan has ended in state st:
\* the schema, the filler byte, the query text.
QueryAfterStatusVars(header, postHeader, t, st) ==
  LET svl == postHeader.StatusVarsLength
      e1 == RdErr(t, st.off, postHeader.SchemaLength)
      o1 == RdOff(t, st.off, postHeader.SchemaLength)
      e2 == RdErr(t, o1, 1)
      o2 == RdOff(t, o1, 1)
      querySize == Len(t) - svl - postHeader.SchemaLength - 1
      e3 == RdErr(t, o2, querySize)
      o3 == RdOff(t, o2, querySize)
      payload == [StatusVars |-> st.vars,
                  Schema |-> SubSeq(t, st.off + 1, o1),
                  Query |-> SubSeq(t, o2 + 1, o3)]
  IN  IF st.kind = "panic"
        THEN Decoded("panic", st.err, NoEvent, Off, st.off, FALSE)
      ELSE IF st.kind = "err"
        THEN Decoded("err", st.err, NoEvent, Off, st.off, FALSE)
      ELSE IF e1 # "nil" THEN Decoded("err", e1, NoEvent, Off, o1, FALSE)
      ELSE IF e2 # "nil" THEN Decoded("err", e2, NoEvent, Off, o2, FALSE)
      ELSE IF querySize < 0
        THEN Decoded("panic", "makeslice: len out of range", NoEvent, Off, o2, FALSE)
      ELSE IF e3 # "nil" THEN Decoded("err", e3, NoEvent, Off, o3, FALSE)
      ELSE Decoded("ok", "nil", QueryEv(header, postHeader, payload), Off, o3, FALSE)

\* t is text[QUERY_EVENT_POST_HEADER_LEN:end].  The result's consumed is
\* the offset in t the reader stopped at.
newQueryEventPayload(header, postHeader, t) ==
  QueryAfterStatusVars(header, postHeader, t,
                       StatusVars(t, Scan("ok", "nil", 0, 0, EmptyMap),
                                  postHeader.StatusVarsLength))

\* text[:13] may reach past len(text), into the backing array; text[13:end]
\* needs 13 <= end.
newQueryEvent(header, arr, n, fdeIn) ==
  LET postHeader == newQueryEventPostHeader(Bytes(arr, QUERY_EVENT_POST_HEADER_LEN))
      end == IF fdeIn.ChecksumAlg = BINLOG_CHECKSUM_ALG_CRC32
             THEN n - BINLOG_CHECKSUM_LEN ELSE n
      d == newQueryEventPayload(header, postHeader,
                                SubSeq(Bytes(arr, n), QUERY_EVENT_POST_HEADER_LEN + 1, end))
  IN  IF PayloadSize(header) # U32(n)
        THEN Decoded("panic", "Invalid QueryEvent", NoEvent, Off, 0, FALSE)
      ELSE IF end < QUERY_EVENT_POST_HEADER_LEN
        THEN Decoded("panic", "slice bounds out of range", NoEvent, Off,
                     QUERY_EVENT_POST_HEADER_LEN, FALSE)
      ELSE [d EXCEPT !.consumed = QUERY_EVENT_POST_HEADER_LEN + @]

NewBinLogEvent(header, arr, n, fdeIn) ==
  CASE header.EventType = FORMAT_DESCRIPTION_EVENT ->
         newFormatDescriptionEvent(header, arr, n)
    [] header.EventType = XID_EVENT -> newXidEventPayload(header, arr, n)
    [] header.EventType = QUERY_EVENT -> newQueryEvent(header, arr, n, fdeIn)
    [] header.EventType = PREVIOUS_GTIDS_LOG_EVENT ->
         newPreviousGtidsLogEvent(header, arr, n, fdeIn)
    [] OTHER -> Decoded("ok", "nil", UnknownEv(header), Off, 0, FALSE)

(***************************************************************************)
(* The parser.  text is the content of the backing array of Parser.text    *)
(* (the bytes written so far; the rest is zero), textLen and textCap its   *)
(* length and capacity; fde is Parser.fde; pos is the file offset.         *)
(* phase is "start" before NewParser, "open" while a parser exists,        *)
(* "noparser" after NewParser returned an error and "crashed" after a      *)
(* panic.  last records the call that led to the state: what it returned,  *)
(* and the offset and decoder state it started from.                       *)
(***************************************************************************)
Magic == <<254, 98, 105, 110>>

\* A plausible slip: the first byte left unchecked.
MagicOK_SkipFirst(b) == b[2] = 98 /\ b[3] = 105 /\ b[4] = 110

\* text[0] != 0xfe || text[1] != 'b' || text[2] != 'i' || text[3] != 'n'
MagicOK(b) == b[1] = 254 /\ b[2] = 98 /\ b[3] = 105 /\ b[4] = 110

Call(op, kind, err, ev) ==
  [op |-> op, kind |-> kind, err |-> err, ev |-> ev,
   pos0 |-> pos, fde0 |-> fde,
   header |-> NoHeader, size |-> U32(0),
   hdrRead |-> 0, bodyRead |-> 0, seek |-> U32(0),
   decoded |-> FALSE, textN |-> 0, consumed |-> 0, selRead |-> FALSE]

NewParser ==
  /\ phase = "start"
  /\ LET n == FileReadCount(pos, U32(4))
         err == FileReadErr(pos, U32(4))
         data == FileReadData(pos, U32(4))
         res == IF err # "nil" THEN err
                ELSE IF n # 4 THEN "Failed to read binlog file header"
                ELSE IF ~MagicOK(data) THEN "Invalid binlog file header"
                ELSE "nil"
     IN  /\ pos' = AddPos(pos, U32(n))
         /\ phase' = IF res = "nil" THEN "open" ELSE "noparser"
         /\ text' = IF res = "nil" THEN data ELSE text
         /\ textLen' = IF res = "nil" THEN U32(4) ELSE textLen
         /\ textCap' = IF res = "nil" THEN U32(InitialTextCap) ELSE textCap
         /\ fde' = NilFde
         /\ last' = [Call("NewParser", IF res = "nil" THEN "ok" ELSE "error",
                          res, NoEvent) EXCEPT !.hdrRead = n]
  /\ UNCHANGED <<stream, held>>

\* A plausible slip: a short header read reported as io.EOF.
HeaderErr_ShortIsEOF(n, err) ==
  IF err # "nil" THEN err
  ELSE IF n # BINLOG_EVENT_HEADER_LEN THEN "EOF"
  ELSE "nil"

\* readEventHeader: the error it returns for a Read of n bytes and err.
HeaderErr(n, err) ==
  IF err # "nil" THEN err
  ELSE IF n # BINLOG_EVENT_HEADER_LEN THEN "Failed to read event header"
  ELSE "nil"

\* A plausible slip: the algorithm taken from every decoded event.
ReturnDecoded_AnyEventSetsAlg(o, d) ==
  [o EXCEPT
     !.kind = IF d.kind = "ok" THEN "ok"
              ELSE IF d.kind = "panic" THEN "panic" ELSE "error",
     !.err = d.err,
     !.ev = d.ev,
     !.fde = IF d.kind = "ok" THEN [@ EXCEPT !.ChecksumAlg = d.alg] ELSE @,
     !.decoded = TRUE,
     !.textN = IntOf(o.textLen),
     !.consumed = d.consumed,
     !.selRead = d.selRead]

\* return NewBinLogEvent(header, self.text, self.fde): o is the outcome up
\* to the body read, d what the decoder gave.  A Format-Description event
\* has set fde.ChecksumAlg (NewBinLogEvent) before it is returned.
ReturnDecoded(o, d) ==
  [o EXCEPT
     !.kind = IF d.kind = "ok" THEN "ok"
              ELSE IF d.kind = "panic" THEN "panic" ELSE "error",
     !.err = d.err,
     !.ev = d.ev,
     !.fde = IF d.kind = "ok" /\ d.ev.type = "FormatDescription"
             THEN [@ EXCEPT !.ChecksumAlg = d.ev.ChecksumAlg]
             ELSE @,
     !.decoded = TRUE,
     !.textN = IntOf(o.textLen),
     !.consumed = d.consumed,
     !.selRead = d.selRead]

\* A plausible slip: a buffer made anew for every payload.
GrownCap_AlwaysMade(cap, size) == IF size # U32(0) THEN size ELSE cap

\* The capacity of self.text once ReadEvent has sized it for the payload:
\* make([]byte, size) when the capacity is below size, a re-slice otherwise.
GrownCap(cap, size) ==
  IF size # U32(0) /\ LtU32(cap, size) THEN size ELSE cap

\* The state after Parser.ReadEvent, and what it returns.
ReadEventOutcome ==
  LET fde1 == IF fde.alloc THEN fde ELSE NewFde
      hlen == U32(BINLOG_EVENT_HEADER_LEN)
      n1 == FileReadCount(pos, hlen)
      arr1 == Overwrite(text, FileReadData(pos, hlen))
      pos1 == AddPos(pos, U32(n1))
      herr == HeaderErr(n1, FileReadErr(pos, hlen))
      header == NewBinLogEventHeader(Bytes(arr1, BINLOG_EVENT_HEADER_LEN))
      size == PayloadSize(header)
      grow == LtU32(textCap, size)
      arr2 == IF size # U32(0) /\ grow THEN <<>> ELSE arr1
      cap2 == GrownCap(textCap, size)
      len2 == IF size # U32(0) THEN size ELSE hlen
      n2 == IF size # U32(0) THEN FileReadCount(pos1, size) ELSE 0
      arr3 == IF size # U32(0) THEN Overwrite(arr2, FileReadData(pos1, size)) ELSE arr2
      pos2 == AddPos(pos1, U32(n2))
      berr == IF size = U32(0) THEN "nil"
              ELSE IF FileReadErr(pos1, size) # "nil" THEN FileReadErr(pos1, size)
              ELSE IF U32(n2) # len2 THEN "Failed to read event body"
              ELSE "nil"
      base == [pos |-> pos1, text |-> arr1, textLen |-> hlen, textCap |-> textCap,
               fde |-> fde1, kind |-> "error", err |-> herr, ev |-> NoEvent,
               header |-> NoHeader, size |-> U32(0), hdrRead |-> n1, bodyRead |-> 0,
               decoded |-> FALSE, textN |-> 0, consumed |-> 0, selRead |-> FALSE]
      body == [base EXCEPT !.pos = pos2, !.text = arr3, !.textLen = len2,
                           !.textCap = cap2, !.err = berr, !.header = header,
                           !.size = size, !.bodyRead = n2]
  IN  IF herr # "nil" THEN base
      ELSE IF berr # "nil" THEN body
      ELSE ReturnDecoded(body, NewBinLogEvent(header, arr3, IntOf(len2), fde1))

\* A plausible slip: skipping by reading and decoding the record.
SkipOnlyOutcome_Decodes == [ReadEventOutcome EXCEPT !.ev = NoEvent]

\* A plausible slip: the seek taken from the start of the file.
SeekCur_FromStart(p, size) == IF size # U32(0) THEN size ELSE p

\* self.file.Seek(int64(size), 1) when size is not 0: the offset after it.
SeekCur(p, size) == IF size # U32(0) THEN AddPos(p, size) ELSE p

\* The state after Parser.SkipEvent on a parser whose fde is set.
SkipOnlyOutcome ==
  LET hlen == U32(BINLOG_EVENT_HEADER_LEN)
      n1 == FileReadCount(pos, hlen)
      arr1 == Overwrite(text, FileReadData(pos, hlen))
      pos1 == AddPos(pos, U32(n1))
      herr == HeaderErr(n1, FileReadErr(pos, hlen))
      header == NewBinLogEventHeader(Bytes(arr1, BINLOG_EVENT_HEADER_LEN))
      size == PayloadSize(header)
      base == [pos |-> pos1, text |-> arr1, textLen |-> hlen, textCap |-> textCap,
               fde |-> fde, kind |-> "error", err |-> herr, ev |-> NoEvent,
               header |-> NoHeader, size |-> U32(0), hdrRead |-> n1, bodyRead |-> 0,
               decoded |-> FALSE, textN |-> 0, consumed |-> 0, selRead |-> FALSE]
  IN  IF herr # "nil" THEN base
      ELSE [base EXCEPT !.kind = "ok", !.pos = SeekCur(pos1, size),
                        !.header = header, !.size = size]

\* if self.fde == nil { _, err := self.ReadEvent(); return err }
SkipEventOutcome ==
  IF ~fde.alloc THEN [ReadEventOutcome EXCEPT !.ev = NoEvent]
  ELSE SkipOnlyOutcome

(***************************************************************************)
(* The first event ReadEvent returned, kept by the caller: ev is the event *)
(* as it was returned, now what the caller reads in it at present, at the  *)
(* offset in the parser's buffer its query text was decoded from, and same *)
(* whether the parser's buffer still has the backing array it had then     *)
(* (make([]byte, size) gives it a new one).                                *)
(***************************************************************************)
NoHeld == [ev |-> NoEvent, now |-> NoEvent, at |-> 0, same |-> TRUE]

\* A plausible slip: the query text kept as a sub-slice of the buffer,
\* payload.Query = text[at : at+querySize].
ReadNow_QueryShared(ev, at, arr) ==
  IF ev.type = "Query"
  THEN [ev EXCEPT !.payload.Query =
                    SubSeq(Bytes(arr, at + Len(@)), at + 1, at + Len(@))]
  ELSE ev

\* What the holder of ev reads in it when the backing array holds arr:
\* binary.Read has filled a struct, a slice or a string allocated for each
\* field (new, make, string(...)), so no field shares the backing array.
ReadNow(ev, at, arr) == ev

Keep(op, o) ==
  IF held.ev.type = "nil"
  THEN IF op = "ReadEvent" /\ o.kind = "ok"
       THEN [ev |-> o.ev, now |-> o.ev,
             at |-> IF o.ev.type = "Query"
                    THEN o.consumed - Len(o.ev.payload.Query) ELSE 0,
             same |-> TRUE]
       ELSE held
  ELSE LET same == held.same /\ o.textCap = textCap
       IN  [held EXCEPT !.same = same,
                        !.now = IF same THEN ReadNow(held.ev, held.at, o.text)
                                ELSE @]

Apply(op, o) ==
  /\ pos' = o.pos
  /\ text' = o.text
  /\ textLen' = o.textLen
  /\ textCap' = o.textCap
  /\ fde' = o.fde
  /\ phase' = IF o.kind = "panic" THEN "crashed" ELSE "open"
  /\ last' = [Call(op, o.kind, o.err, o.ev) EXCEPT
                !.header = o.header, !.size = o.size, !.hdrRead = o.hdrRead,
                !.bodyRead = o.bodyRead,
                !.seek = IF op = "SkipEvent" /\ fde.alloc /\ o.kind = "ok"
                         THEN o.size ELSE U32(0),
                !.decoded = o.decoded, !.textN = o.textN,
                !.consumed = o.consumed, !.selRead = o.selRead]
  /\ held' = Keep(op, o)
  /\ UNCHANGED stream

ReadEvent == phase = "open" /\ Apply("ReadEvent", ReadEventOutcome)

SkipEvent == phase = "open" /\ Apply("SkipEvent", SkipEventOutcome)

(***************************************************************************)
(* The files the parser is run on: the preamble (or a damaged one), then   *)
(* at most MaxEvents records drawn from Records, or at most one record and *)
(* then a record cut short.                                                *)
(***************************************************************************)
MaxEvents == 2

Bytes32(n) == <<n % 256, (n \div 256) % 256, 0, 0>>

Zeros(n) == [i \in 1..n |-> 0]

\* A record: the 19-byte header declaring eventSize, then the body.
Rec(type, eventSize, body) ==
  <<210, 2, 150, 73>> \o <<type>> \o <<7, 1, 0, 0>> \o Bytes32(eventSize)
    \o <<120, 0, 0, 0>> \o <<1, 0>> \o body

\* A record whose header declares the size it has.
Whole(type, body) == Rec(type, BINLOG_EVENT_HEADER_LEN + Len(body), body)

Crc == <<222, 173, 190, 239>>

V560 == <<53, 46, 54, 46, 48>>
V561 == <<53, 46, 54, 46, 49>>
V5100 == <<53, 46, 49, 48, 46, 48>>

FdeBody(ver, rest) ==
  <<4, 0>> \o ver \o Zeros(ServerVersionLen - Len(ver)) \o <<9, 8, 7, 6>>
    \o <<19>> \o rest

XidBody == <<11, 22, 33, 44, 55, 66, 77, 88>>

\* post-header (schema length 1, status-vars length 5), flags2 = 0x4000,
\* schema "d", the filler byte, the query "Q".
QueryBody ==
  <<5, 0, 0, 0>> \o <<2, 0, 0, 0>> \o <<1>> \o <<0, 0>> \o <<5, 0>>
    \o <<0, 0, 64, 0, 0>> \o <<100>> \o <<0>> \o <<81>>

\* The 13-byte post-header of a Query record.
QueryPost(schemaLength, statusVarsLength) ==
  <<5, 0, 0, 0>> \o <<2, 0, 0, 0>> \o <<schemaLength>> \o <<0, 0>>
    \o <<statusVarsLength % 256, statusVarsLength \div 256>>

\* A Query body of 5 bytes: shorter than its post-header.
QueryShort == <<5, 0, 0, 0, 2>>

\* The tag 0x0e, which is no status variable, then flags2.
QueryUnknownTag ==
  QueryPost(1, 6) \o <<14>> \o <<0, 0, 64, 0, 0>> \o <<100>> \o <<0>> \o <<81>>

\* A window of 3 bytes holding a flags2 entry of 5.
QueryOverWindow ==
  QueryPost(1, 3) \o <<0, 0, 64, 0, 0>> \o <<100>> \o <<0>> \o <<81>>

\* catalog with length byte 255 and its 256 bytes: a window of 258 bytes.
QueryCatalog255 ==
  QueryPost(1, 258) \o <<2, 255>> \o [i \in 1..256 |-> 99]
    \o <<100>> \o <<0>> \o <<81>>

\* Two lc-time-names entries, 7 then 7 again: a window of 6 bytes.
QueryTwoEntries ==
  QueryPost(1, 6) \o <<7, 1, 0>> \o <<7, 2, 0>> \o <<100>> \o <<0>> \o <<81>>

\* "5.6." and 46 digits 0: a version field without a zero byte.
V50 == <<53, 46, 54, 46>> \o [i \in 1..(ServerVersionLen - 4) |-> 48]

\* A body of 57 bytes from a server that appends a checksum: the selector
\* position, 5 bytes before the end, falls on the timestamp's first byte.
FdeShortBody ==
  <<4, 0>> \o V561 \o Zeros(ServerVersionLen - Len(V561)) \o <<1, 0, 0, 0>>
    \o <<19>>

GtidBody ==
  <<1, 0, 0, 0, 0, 0, 0, 0>> \o [i \in 1..16 |-> 160 + i]
    \o <<1, 0, 0, 0, 0, 0, 0, 0>> \o <<1, 0, 0, 0, 0, 0, 0, 0>>
    \o <<9, 1, 0, 0, 0, 0, 0, 0>>

FdeRecords ==
  { Whole(FORMAT_DESCRIPTION_EVENT, FdeBody(V560, <<1, 56, 13, 0, 8>>)),
    Whole(FORMAT_DESCRIPTION_EVENT, FdeBody(V561, <<56, 13, 1>> \o Crc)),
    Whole(FORMAT_DESCRIPTION_EVENT, FdeBody(V5100, <<56, 13, 1>> \o Crc)),
    Whole(FORMAT_DESCRIPTION_EVENT, FdeBody(V561, <<56, 13, 0>> \o Crc)),
    Whole(FORMAT_DESCRIPTION_EVENT, FdeBody(V561, <<56, 13, 2>> \o Crc)),
    Whole(FORMAT_DESCRIPTION_EVENT, FdeBody(<<>>, <<56, 13>>)),
    Whole(FORMAT_DESCRIPTION_EVENT, FdeBody(V50, <<56, 13>>)),
    Whole(FORMAT_DESCRIPTION_EVENT, FdeShortBody) }

Records ==
  FdeRecords \cup
  { Whole(XID_EVENT, XidBody),
    Whole(XID_EVENT, XidBody \o Crc),
    Whole(XID_EVENT, <<11, 22, 33, 44>>),
    Whole(XID_EVENT, <<>>),
    Whole(QUERY_EVENT, QueryBody),
    Whole(QUERY_EVENT, QueryBody \o Crc),
    Whole(QUERY_EVENT, QueryShort),
    Whole(QUERY_EVENT, QueryUnknownTag),
    Whole(QUERY_EVENT, QueryOverWindow),
    Whole(QUERY_EVENT, QueryCatalog255),
    Whole(QUERY_EVENT, QueryTwoEntries),
    Whole(PREVIOUS_GTIDS_LOG_EVENT, Zeros(8)),
    Whole(PREVIOUS_GTIDS_LOG_EVENT, GtidBody),
    Whole(PREVIOUS_GTIDS_LOG_EVENT, GtidBody \o Crc),
    Whole(ROTATE_EVENT, <<1, 2, 3>>),
    Whole(ROTATE_EVENT, <<>>),
    Whole(0, Zeros(InitialTextCap + 1)),
    Rec(ROTATE_EVENT, BINLOG_EVENT_HEADER_LEN - 1, <<>>) }

RECURSIVE Bodies(_)
Bodies(k) ==
  IF k = 0 THEN {<<>>}
  ELSE Bodies(k - 1) \cup {s \o r : s \in Bodies(k - 1), r \in Records}

\* Where a record is cut: inside the header, after it, inside the body.
Cuts(r) == {1, 18, 19, Len(r) - 1} \cap (1..(Len(r) - 1))

Truncated ==
  UNION { {s \o SubSeq(r, 1, k) : k \in Cuts(r)} :
          s \in Bodies(1), r \in Records }

BadPreambles ==
  { <<>>, <<254, 98>>,
    <<255, 98, 105, 110>> \o Whole(XID_EVENT, XidBody),
    <<254, 98, 105, 111>> \o Whole(XID_EVENT, XidBody) }

Streams ==
  BadPreambles \cup {Magic \o s : s \in Bodies(MaxEvents) \cup Truncated}

Init ==
  /\ stream \in Streams
  /\ pos = <<0, 0>>
  /\ phase = "start"
  /\ text = <<>>
  /\ textLen = U32(0)
  /\ textCap = U32(0)
  /\ fde = NilFde
  /\ last = Call("none", "ok", "nil", NoEvent)
  /\ held = NoHeld

Next == NewParser \/ ReadEvent \/ SkipEvent

Spec == Init /\ [][Next]_vars

(***************************************************************************)
(* The command-line program: NewParser (an error ends it), then SkipEvent  *)
(* for i < args.Start, where any error ends it, then ReadEvent for as long *)
(* as events come back when args.Count is negative. Start is any number:   *)
(* the skip loop may hand over to the read loop after any call. The        *)
(* program is sequential and takes its next step whenever it has one.      *)
(***************************************************************************)
CliSkip ==
  /\ last.op \in {"NewParser", "SkipEvent"} /\ last.kind = "ok"
  /\ SkipEvent

CliRead ==
  /\ last.op \in {"NewParser", "SkipEvent", "ReadEvent"} /\ last.kind = "ok"
  /\ ReadEvent

CliNext == NewParser \/ CliSkip \/ CliRead

CliSpec == Init /\ [][CliNext]_vars /\ WF_vars(CliNext)

(***************************************************************************)
(* What the caller of the last call saw.                                   *)
(***************************************************************************)
\* The call returned io.EOF: the outcome a caller takes for Ended.
ReturnedEnded == last.kind = "error" /\ last.err = "EOF"

\* The call returned an error that is not io.EOF.
ReturnedFailure == last.kind = "error" /\ last.err # "EOF"

ReturnedEvent == last.kind = "ok" /\ last.ev.type # "nil"

\* The bytes that were left in the file when the last call started.
RemainingAtCall == Remaining(last.pos0)

\* The bytes that were left after the 19 bytes of the header.
RemainingAfterHeader ==
  Remaining(AddPos(last.pos0, U32(BINLOG_EVENT_HEADER_LEN)))

\* The last call ran readEvent's code (SkipEvent on a fresh parser does).
RanReadEvent ==
  last.op = "ReadEvent" \/ (last.op = "SkipEvent" /\ ~last.fde0.alloc)

(***************************************************************************)
(* C1. NewParser succeeds exactly on the streams that start with the four  *)
(* bytes 0xFE 'b' 'i' 'n'; on every other stream, one shorter than four    *)
(* bytes included, it returns an error and no parser; it never moves the   *)
(* cursor past the first four bytes and parses no event header.            *)
(***************************************************************************)
C1_MagicChecked ==
  last.op = "NewParser" =>
    /\ (phase = "open") = (Len(stream) >= 4 /\ SubSeq(stream, 1, 4) = Magic)
    /\ phase # "open" => (phase = "noparser" /\ last.kind = "error")
    /\ pos[2] = 0 /\ pos[1] = Min(4, Len(stream))
    /\ last.header.isNil /\ ~last.decoded

C1_Witness ==
  /\ last.op = "NewParser" /\ last.kind = "error"
  /\ Len(stream) > 4 /\ SubSeq(stream, 2, 4) = SubSeq(Magic, 2, 4)

(***************************************************************************)
(* C2. readEvent called with no byte left at a record boundary returns     *)
(* Ended (io.EOF) and no event; on a stream that is just the preamble the  *)
(* first readEvent returns Ended.                                          *)
(***************************************************************************)
C2_EndedAtBoundary ==
  (last.op = "ReadEvent" /\ RemainingAtCall = 0) =>
    (ReturnedEnded /\ last.ev.type = "nil" /\ phase = "open")

C2_Witness ==
  stream = Magic /\ last.op = "ReadEvent" /\ ReturnedEnded

(***************************************************************************)
(* C3. readEvent called with 1 to 18 bytes left at the header position     *)
(* fails with an error that is not io.EOF and returns no event.            *)
(***************************************************************************)
C3_ShortHeaderFails ==
  (last.op = "ReadEvent" /\ RemainingAtCall >= 1
     /\ RemainingAtCall < BINLOG_EVENT_HEADER_LEN) =>
    (ReturnedFailure /\ last.ev.type = "nil")

C3_Witness ==
  last.op = "ReadEvent" /\ RemainingAtCall = 18 /\ ReturnedFailure

(***************************************************************************)
(* C4. After a complete header declaring payloadSize > 0, with fewer than  *)
(* payloadSize bytes left (0 to payloadSize - 1), readEvent fails with an  *)
(* error that is not io.EOF and returns no event.                          *)
(***************************************************************************)
C4_TruncatedBodyFails ==
  (last.op = "ReadEvent" /\ ~last.header.isNil /\ last.size # U32(0)
     /\ LtU32(U32(RemainingAfterHeader), last.size)) =>
    (ReturnedFailure /\ last.ev.type = "nil")

(***************************************************************************)
(* C5. When readEvent has decoded a Format-Description record, the         *)
(* parser's decoder state is the state the record produced: its checksum   *)
(* algorithm, its server version string and its header-length table.       *)
(***************************************************************************)
C5_StateReplaced ==
  (last.op = "ReadEvent" /\ last.kind = "ok"
     /\ last.ev.type = "FormatDescription") =>
    /\ fde.ChecksumAlg = last.ev.ChecksumAlg
    /\ ~fde.payload.isNil
    /\ fde.payload.MySQLServerVersion = last.ev.payload.MySQLServerVersion
    /\ fde.payload.EventTypeHeaderLength = last.ev.payload.EventTypeHeaderLength

(***************************************************************************)
(* C6. As claimed: in every parser state, a fresh parser included,         *)
(* skipEvent reads the header only, never the body, leaves the decoder     *)
(* state as it was and moves the cursor by 19 + payloadSize.               *)
(***************************************************************************)
C6_SkipNeverDecodes ==
  last.op = "SkipEvent" =>
    /\ last.bodyRead = 0
    /\ fde.ChecksumAlg = last.fde0.ChecksumAlg
    /\ last.kind = "ok" =>
         pos = AddPos(AddPos(last.pos0, U32(BINLOG_EVENT_HEADER_LEN)), last.size)

(***************************************************************************)
(* C6, amended.  On a parser on which readEvent or skipEvent has been      *)
(* called before (Parser.fde is set), skipEvent reads the header only,     *)
(* decodes nothing, leaves the decoder state unchanged, a Format-          *)
(* Description record included, and moves the cursor by 19 + payloadSize;  *)
(* on a fresh parser it runs readEvent: it reads and decodes the body.     *)
(***************************************************************************)
C6_SkipAfterFirstCall ==
  last.op = "SkipEvent" =>
    IF last.fde0.alloc
    THEN /\ last.hdrRead <= BINLOG_EVENT_HEADER_LEN
         /\ last.bodyRead = 0 /\ ~last.decoded
         /\ fde = last.fde0
         /\ last.kind = "ok" =>
              /\ last.seek = last.size
              /\ pos = AddPos(AddPos(last.pos0, U32(BINLOG_EVENT_HEADER_LEN)),
                              last.size)
    ELSE (~last.header.isNil
            /\ ~LtU32(U32(RemainingAfterHeader), last.size)) =>
           (last.decoded /\ U32(last.bodyRead) = last.size)

C6_Witness ==
  /\ last.op = "SkipEvent" /\ last.fde0.alloc /\ last.kind = "ok"
  /\ last.header.EventType = FORMAT_DESCRIPTION_EVENT
  /\ last.size # U32(0)

(***************************************************************************)
(* C7. Once a readEvent or skipEvent call has failed with an error, no     *)
(* later call on the parser succeeds.                                      *)
(***************************************************************************)
C7_FailedIsTerminal ==
  [][ (last.op \in {"ReadEvent", "SkipEvent"} /\ ReturnedFailure)
        => last'.kind # "ok" ]_vars

(***************************************************************************)
(* C8. Every readEvent call ends with an event and no error, with Ended,   *)
(* or with an error and no event; it never ends in a panic.                *)
(***************************************************************************)
C8_NoCrash ==
  last.op = "ReadEvent" =>
    /\ last.kind \in {"ok", "error"}
    /\ (last.kind = "ok") = (last.ev.type # "nil")

(***************************************************************************)
(* C9. For every valid event of an implemented type that readEvent        *)
(* decodes, under checksum Off or CRC32, the number of payload bytes its   *)
(* decoder consumes is eventSize - 19.  An event is valid when its payload *)
(* has the length its layout asks for under the parser's checksum          *)
(* algorithm.                                                              *)
(***************************************************************************)
TrailerAtCall ==
  IF last.fde0.ChecksumAlg = BINLOG_CHECKSUM_ALG_CRC32
  THEN BINLOG_CHECKSUM_LEN ELSE 0

ValidImplementedEvent ==
  /\ last.op = "ReadEvent" /\ ReturnedEvent
  /\ last.ev.type \in {"FormatDescription", "Xid", "Query", "PreviousGtids"}
  /\ last.ev.type = "Xid" => last.textN = 8 + TrailerAtCall
  /\ last.ev.type = "PreviousGtids" =>
       last.textN = 8 + GtidSetLen * Len(last.ev.gtidSets) + TrailerAtCall

C9_ConsumesWholePayload ==
  ValidImplementedEvent => U32(last.consumed) = last.size

(***************************************************************************)
(* C10. A Format-Description record whose server version is the dotted     *)
(* numeric major.minor.patch: when the version is at least 5.6.1 as a      *)
(* triple of numbers, the byte at body offset bodyLength - 5 is read and   *)
(* is the checksum algorithm of the event and of the parser; when it is    *)
(* below, the algorithm is Off and that byte is not read.                  *)
(***************************************************************************)
\* The body of the record the last call read.
LastBody == SubSeq(stream, last.pos0[1] + BINLOG_EVENT_HEADER_LEN + 1,
                   last.pos0[1] + BINLOG_EVENT_HEADER_LEN + last.textN)

\* The server-version field of that body up to its first zero byte.
LastVersion ==
  LET f == SubSeq(LastBody, 3, 2 + ServerVersionLen)
      z == {i \in 1..Len(f) : f[i] = 0}
  IN  IF z = {} THEN f
      ELSE SubSeq(f, 1, (CHOOSE i \in z : \A j \in z : i <= j) - 1)

AtLeastFloor(v) ==
  \/ v[1] > 5
  \/ v[1] = 5 /\ v[2] > 6
  \/ v[1] = 5 /\ v[2] = 6 /\ v[3] >= 1

FdeDecodeRan ==
  /\ RanReadEvent /\ last.decoded
  /\ last.header.EventType = FORMAT_DESCRIPTION_EVENT
  /\ last.size = U32(last.textN) /\ last.textN >= FdeFixedLen
  /\ VersionParses(LastVersion) /\ Len(Segments(LastVersion)) = 3

C10_NumericVersionFloor ==
  FdeDecodeRan =>
    IF AtLeastFloor(Segments(LastVersion))
    THEN /\ last.selRead
         /\ last.kind = "ok" => fde.ChecksumAlg = LastBody[last.textN - 4]
         /\ ReturnedEvent => last.ev.ChecksumAlg = LastBody[last.textN - 4]
    ELSE /\ ~last.selRead
         /\ last.kind = "ok"
         /\ fde.ChecksumAlg = BINLOG_CHECKSUM_ALG_OFF
         /\ ReturnedEvent => last.ev.ChecksumAlg = BINLOG_CHECKSUM_ALG_OFF

C10_Witness ==
  /\ FdeDecodeRan /\ last.kind = "ok"
  /\ LastVersion = V5100
  /\ fde.ChecksumAlg = BINLOG_CHECKSUM_ALG_CRC32

(***************************************************************************)
(* C11. A Format-Description record whose version is at least 5.6.1 and    *)
(* whose selector byte is neither Off (0) nor CRC32 (1): the call returns  *)
(* an error and no event, and the parser keeps the checksum algorithm it   *)
(* had before the call.                                                    *)
(***************************************************************************)
C11_UnknownAlgorithmFails ==
  (FdeDecodeRan /\ AtLeastFloor(Segments(LastVersion))
     /\ LastBody[last.textN - 4] \notin
          {BINLOG_CHECKSUM_ALG_OFF, BINLOG_CHECKSUM_ALG_CRC32}) =>
    /\ last.kind = "error" /\ last.ev.type = "nil"
    /\ fde.ChecksumAlg = last.fde0.ChecksumAlg

(***************************************************************************)
(* C12. The Xid decoder, handed a payload of exactly 8 bytes, returns the  *)
(* little-endian u64 they form; handed a payload of any other length,      *)
(* shorter or longer, it returns an error and no event.                    *)
(***************************************************************************)
C12_XidExactlyEight ==
  (last.op = "ReadEvent" /\ last.decoded
     /\ last.header.EventType = XID_EVENT) =>
    IF last.size = U32(8)
    THEN /\ ReturnedEvent /\ last.ev.type = "Xid"
         /\ last.ev.xid = LE64(LastBody, 1)
    ELSE last.kind = "error" /\ last.ev.type = "nil"

(***************************************************************************)
(* C13. The fields of a Query event that readEvent returns partition the   *)
(* payload in order: the 13-byte post-header, statusVarsLength bytes of    *)
(* status variables, schemaLength bytes of schema name, one filler byte,   *)
(* and the query text, which is all the bytes that remain.                 *)
(***************************************************************************)
\* The last call returned a Query event from readEvent.
ReturnedQuery ==
  last.op = "ReadEvent" /\ ReturnedEvent /\ last.ev.type = "Query"

\* The payload of the record without its checksum trailer.
LastPayload == SubSeq(LastBody, 1, last.textN - TrailerAtCall)

\* statusVarsLength and schemaLength as the record's post-header has them.
WireStatusVarsLength == LE16(LastBody, 12)

WireSchemaLength == LastBody[9]

C13_QueryPartition ==
  ReturnedQuery =>
    LET schemaAt == QUERY_EVENT_POST_HEADER_LEN + WireStatusVarsLength
        fillerAt == schemaAt + WireSchemaLength + 1
    IN  /\ fillerAt <= Len(LastPayload)
        /\ last.ev.postHeader.SlaveProxyId = LE32(LastPayload, 1)
        /\ last.ev.postHeader.ExecutionTime = LE32(LastPayload, 5)
        /\ last.ev.postHeader.ErrorCode = LE16(LastPayload, 10)
        /\ last.ev.payload.Schema = SubSeq(LastPayload, schemaAt + 1, fillerAt - 1)
        /\ last.ev.payload.Query =
             SubSeq(LastPayload, fillerAt + 1, Len(LastPayload))

(***************************************************************************)
(* C14. A Query payload too short for a decoding step (shorter than the    *)
(* 13-byte post-header, or too short to hold the status variables, the     *)
(* schema name and the filler byte its post-header declares) makes the     *)
(* call return an error and no event.                                      *)
(***************************************************************************)
\* The Query decoder ran in the last readEvent call.
QueryDecodeRan ==
  /\ last.op = "ReadEvent" /\ last.decoded
  /\ last.header.EventType = QUERY_EVENT

QueryTooShort ==
  LET len == IntOf(last.size) - TrailerAtCall
  IN  \/ len < QUERY_EVENT_POST_HEADER_LEN
      \/ len < QUERY_EVENT_POST_HEADER_LEN + WireStatusVarsLength
                 + WireSchemaLength + 1

C14_ShortQueryFails ==
  (QueryDecodeRan /\ QueryTooShort) =>
    (last.kind = "error" /\ last.ev.type = "nil")

(***************************************************************************)
(* C15. A Query record whose status-variable window starts with a tag byte *)
(* that is none of the 14 recognized tags (0x00 to 0x0d): the call returns *)
(* an error and no event; the byte is not skipped.                         *)
(***************************************************************************)
FirstTagUnknown ==
  /\ IntOf(last.size) - TrailerAtCall > QUERY_EVENT_POST_HEADER_LEN
  /\ WireStatusVarsLength >= 1
  /\ LastBody[QUERY_EVENT_POST_HEADER_LEN + 1] > Q_MICROSECONDS

C15_UnknownTagFails ==
  (QueryDecodeRan /\ FirstTagUnknown) =>
    (last.kind = "error" /\ last.ev.type = "nil")

(***************************************************************************)
(* C16. The Previous-GTIDs decoder reads the 8-byte little-endian count N  *)
(* and N entries of 40 bytes whose fields are the input bytes.  It returns *)
(* an event exactly when the payload without its checksum trailer is       *)
(* 8 + 40 * N bytes long, and an error and no event for every other        *)
(* length; for N = 0 the list is empty and 8 bytes are consumed.           *)
(***************************************************************************)
PrevGtidsDecodeRan ==
  /\ last.op = "ReadEvent" /\ last.decoded
  /\ last.header.EventType = PREVIOUS_GTIDS_LOG_EVENT

WireGtidCount == LE64(LastBody, 1)

GtidsWellSized ==
  LET len == IntOf(last.size) - TrailerAtCall
  IN  /\ len >= 8
      /\ WireGtidCount[2] = 0 /\ WireGtidCount[3] = 0 /\ WireGtidCount[4] = 0
      /\ len = 8 + GtidSetLen * WireGtidCount[1]

C16_GtidSetExactLength ==
  PrevGtidsDecodeRan =>
    IF GtidsWellSized
    THEN /\ ReturnedEvent /\ last.ev.type = "PreviousGtids"
         /\ Len(last.ev.gtidSets) = WireGtidCount[1]
         /\ \A i \in 1..Len(last.ev.gtidSets) :
              LET o == 8 + GtidSetLen * (i - 1)
              IN  /\ last.ev.gtidSets[i].Gtid = SubSeq(LastBody, o + 1, o + 16)
                  /\ last.ev.gtidSets[i].Interval = LE64(LastBody, o + 17)
                  /\ last.ev.gtidSets[i].From = LE64(LastBody, o + 25)
                  /\ last.ev.gtidSets[i].To = LE64(LastBody, o + 33)
         /\ last.consumed = 8 + GtidSetLen * WireGtidCount[1]
    ELSE last.kind = "error" /\ last.ev.type = "nil"

(***************************************************************************)
(* C17. A record that lies wholly within the stream, declares              *)
(* eventSize >= 19 and has an event-type byte other than Query (2),        *)
(* Format-Description (15), Xid (16) and Previous-GTIDs (35): readEvent    *)
(* returns an Unknown event that carries the decoded header and nothing    *)
(* else, decodes nothing of the payload, returns no error and leaves the   *)
(* cursor after the record.  The dispatch does so for every such byte.     *)
(***************************************************************************)
ImplementedTypes ==
  {QUERY_EVENT, FORMAT_DESCRIPTION_EVENT, XID_EVENT, PREVIOUS_GTIDS_LOG_EVENT}

\* The 19 header bytes at the position the last call started from.
LastHeaderBytes ==
  SubSeq(stream, last.pos0[1] + 1, last.pos0[1] + BINLOG_EVENT_HEADER_LEN)

\* The last call was readEvent at the start of a whole record.
ReadWholeRecord ==
  /\ last.op = "ReadEvent"
  /\ RemainingAtCall >= BINLOG_EVENT_HEADER_LEN
  /\ ~LtU32(LE32(LastHeaderBytes, 10), U32(BINLOG_EVENT_HEADER_LEN))
  /\ ~LtU32(U32(RemainingAfterHeader),
            SubU32(LE32(LastHeaderBytes, 10), U32(BINLOG_EVENT_HEADER_LEN)))

C17_UnknownPassesThrough ==
  (ReadWholeRecord /\ LastHeaderBytes[5] \notin ImplementedTypes) =>
    /\ last.kind = "ok"
    /\ last.ev = [type |-> "Unknown",
                  header |-> [isNil |-> FALSE,
                              Timestamp |-> LE32(LastHeaderBytes, 1),
                              EventType |-> LastHeaderBytes[5],
                              ServerId |-> LE32(LastHeaderBytes, 6),
                              EventSize |-> LE32(LastHeaderBytes, 10),
                              LogPos |-> LE32(LastHeaderBytes, 14),
                              Flags |-> LE16(LastHeaderBytes, 18)]]
    /\ last.consumed = 0 /\ ~last.selRead
    /\ pos = AddPos(last.pos0, LE32(LastHeaderBytes, 10))
    /\ \A ty \in (0..255) \ ImplementedTypes :
         LET h == [last.header EXCEPT !.EventType = ty]
             d == NewBinLogEvent(h, text, IntOf(textLen), fde)
         IN  /\ d.kind = "ok" /\ d.consumed = 0
             /\ d.ev.type = "Unknown" /\ d.ev.header = h

C17_Witness ==
  /\ ReadWholeRecord /\ last.header.EventType = ROTATE_EVENT
  /\ last.size = U32(3) /\ last.ev.type = "Unknown"
  /\ last.fde0.ChecksumAlg = BINLOG_CHECKSUM_ALG_CRC32

(***************************************************************************)
(* C18. The parser's checksum algorithm is Off when the parser is          *)
(* constructed, and the decoder state changes only in a call that decodes  *)
(* a Format-Description record successfully: decoding any other record, a  *)
(* decode that fails and a call that returns Ended leave it as it was; it  *)
(* is never reset.                                                         *)
(***************************************************************************)
DecoderStateChanges ==
  \/ fde'.ChecksumAlg # fde.ChecksumAlg
  \/ fde'.payload # fde.payload
  \/ fde'.header # fde.header

C18_StateChangesOnlyOnFde ==
  [][ /\ last'.op = "NewParser" =>
           fde'.ChecksumAlg = BINLOG_CHECKSUM_ALG_OFF
      /\ (last'.op # "NewParser" /\ DecoderStateChanges) =>
           /\ last'.decoded /\ last'.kind = "ok"
           /\ last'.header.EventType = FORMAT_DESCRIPTION_EVENT ]_vars

C18_Witness ==
  /\ last.op = "ReadEvent" /\ ReturnedEvent /\ last.ev.type = "Xid"
  /\ last.fde0.ChecksumAlg = BINLOG_CHECKSUM_ALG_CRC32
  /\ fde.ChecksumAlg = BINLOG_CHECKSUM_ALG_CRC32

LastScan ==
  StatusVars(SubSeq(LastPayload, QUERY_EVENT_POST_HEADER_LEN + 1,
                    Len(LastPayload)),
             Scan("ok", "nil", 0, 0, EmptyMap), WireStatusVarsLength)

C20_ScanStaysInWindow ==
  (QueryDecodeRan
     /\ IntOf(last.size) - TrailerAtCall >= QUERY_EVENT_POST_HEADER_LEN) =>
    LastScan.off <= WireStatusVarsLength

(***************************************************************************)
(* C21. A status-variable scan that ends without an error has consumed     *)
(* from the payload as many bytes as it counted against the window; a      *)
(* window that is one catalog entry with length byte L decodes to the      *)
(* L + 1 bytes after the length byte, L = 255 included; a window that is   *)
(* flags2 followed by 00 40 00 00 decodes to 0x4000, the auto-is-null bit. *)
(***************************************************************************)
\* The first tag byte of the window and the byte after it.
WireFirstTag == LastPayload[QUERY_EVENT_POST_HEADER_LEN + 1]

WireFirstLength == LastPayload[QUERY_EVENT_POST_HEADER_LEN + 2]

C21_EntriesConsumeWhatTheyCount ==
  (QueryDecodeRan
     /\ IntOf(last.size) - TrailerAtCall >= QUERY_EVENT_POST_HEADER_LEN
     /\ LastScan.kind = "ok") =>
    /\ LastScan.off = LastScan.n
    /\ (ReturnedQuery /\ WireFirstTag = Q_CATALOG
          /\ WireStatusVarsLength = 1 + 1 + WireFirstLength + 1) =>
         last.ev.payload.StatusVars[Q_CATALOG] =
           SubSeq(LastPayload, QUERY_EVENT_POST_HEADER_LEN + 3,
                  QUERY_EVENT_POST_HEADER_LEN + 3 + WireFirstLength)
    /\ (ReturnedQuery /\ WireFirstTag = Q_FLAGS2_CODE
          /\ WireStatusVarsLength = 1 + 4
          /\ SubSeq(LastPayload, QUERY_EVENT_POST_HEADER_LEN + 2,
                    QUERY_EVENT_POST_HEADER_LEN + 5) = <<0, 64, 0, 0>>) =>
         last.ev.payload.StatusVars[Q_FLAGS2_CODE] = U32(64 * 256)

(***************************************************************************)
(* C22. A returned Query event has one decoded status variable per entry   *)
(* of its window, each under the tag of its entry: as many elements as     *)
(* there are entries on the wire.                                          *)
(***************************************************************************)
\* The tags whose entry width depends on the tag and the byte after it.
TableTags ==
  {Q_FLAGS2_CODE, Q_SQL_MODE_CODE, Q_CATALOG, Q_AUTO_INCREMENT, Q_CHARSET_CODE,
   Q_TIME_ZONE_CODE, Q_CATALOG_NZ_CODE, Q_LC_TIME_NAMES_CODE,
   Q_CHARSET_DATABASE_CODE, Q_TABLE_MAP_FOR_UPDATE_CODE,
   Q_MASTER_DATA_WRITTEN_CODE, Q_MICROSECONDS}

\* The bytes of an entry, its tag byte included, by the encoding table.
EntryWidth(tag, length) ==
  CASE tag \in {Q_FLAGS2_CODE, Q_MASTER_DATA_WRITTEN_CODE, Q_AUTO_INCREMENT} -> 5
    [] tag \in {Q_SQL_MODE_CODE, Q_TABLE_MAP_FOR_UPDATE_CODE} -> 9
    [] tag = Q_CATALOG -> 1 + 1 + length + 1
    [] tag = Q_CHARSET_CODE -> 7
    [] tag \in {Q_TIME_ZONE_CODE, Q_CATALOG_NZ_CODE} -> 1 + 1 + length
    [] tag \in {Q_LC_TIME_NAMES_CODE, Q_CHARSET_DATABASE_CODE} -> 3
    [] tag = Q_MICROSECONDS -> 4
    [] OTHER -> 1

\* The tags of the entries of window w from index i on, in wire order.
RECURSIVE WireTags(_, _)
WireTags(w, i) ==
  IF i > Len(w) THEN <<>>
  ELSE <<w[i]>> \o
       WireTags(w, i + EntryWidth(w[i], IF i < Len(w) THEN w[i + 1] ELSE 0))

\* The status-variable window of the last record.
LastWindow ==
  SubSeq(LastPayload, QUERY_EVENT_POST_HEADER_LEN + 1,
         QUERY_EVENT_POST_HEADER_LEN + WireStatusVarsLength)

C22_OneElementPerEntry ==
  (ReturnedQuery
     /\ \A i \in 1..Len(WireTags(LastWindow, 1)) :
          WireTags(LastWindow, 1)[i] \in TableTags) =>
    /\ Cardinality(DOMAIN last.ev.payload.StatusVars)
         = Len(WireTags(LastWindow, 1))
    /\ \A i \in 1..Len(WireTags(LastWindow, 1)) :
         WireTags(LastWindow, 1)[i] \in DOMAIN last.ev.payload.StatusVars

(***************************************************************************)
(* C23. A Format-Description body that holds its fixed fields: the server  *)
(* version the decoder takes from the 50-byte field is the field's prefix  *)
(* before its first zero byte (empty when the first byte is zero) and the  *)
(* whole field when it has no zero byte; a returned event carries that     *)
(* string, and a field without a zero byte does not make the call fail.    *)
(***************************************************************************)
\* The 50-byte server-version field of the last record's body.
LastVersionField == SubSeq(LastBody, 3, 2 + ServerVersionLen)

\* The Format-Description decoder ran on a body with all its fixed fields.
FdeFieldsRead ==
  /\ RanReadEvent /\ last.decoded
  /\ last.header.EventType = FORMAT_DESCRIPTION_EVENT
  /\ last.size = U32(last.textN) /\ last.textN >= FdeFixedLen

C23_VersionIsPrefixBeforeZero ==
  FdeFieldsRead =>
    /\ TrimVersion(LastVersionField) = LastVersion
    /\ ReturnedEvent => last.ev.payload.MySQLServerVersion = LastVersion
    /\ (\A i \in 1..ServerVersionLen : LastVersionField[i] # 0) =>
         last.kind = "ok"

(***************************************************************************)
(* C24. A returned Format-Description event carries the values of its      *)
(* body: binlog-format version = the little-endian u16 at offset 0,        *)
(* creation timestamp = the little-endian u32 at offset 52, declared       *)
(* header length = the byte at offset 56, and the per-type table = the     *)
(* bytes from offset 57 to the end of the body, less the selector byte and *)
(* the checksum when the selector was read.                                *)
(***************************************************************************)
ReturnedFde ==
  RanReadEvent /\ ReturnedEvent /\ last.ev.type = "FormatDescription"

C24_FdeCarriesWireValues ==
  ReturnedFde =>
    /\ last.ev.payload.BinlogVersion = LE16(LastBody, 1)
    /\ last.ev.payload.CreateTimestamp = LE32(LastBody, 2 + ServerVersionLen + 1)
    /\ last.ev.payload.EventHeaderLength = LastBody[FdeFixedLen]
    /\ last.ev.payload.EventTypeHeaderLength =
         SubSeq(LastBody, FdeFixedLen + 1,
                last.textN - (IF last.selRead
                              THEN BINLOG_CHECKSUM_LEN + BINLOG_CHECKSUM_ALG_LEN
                              ELSE 0))

(***************************************************************************)
(* C25. When the Format-Description decoder sizes the per-type table, the  *)
(* length is bodyLength - 57, less 5 when the selector was read, and is    *)
(* not negative: it is never a value wrapped modulo 2^32. A body too short *)
(* for the table makes the call return an error and no event.              *)
(***************************************************************************)
\* The bytes before the table and after it in the last body.
FdeOverhead ==
  FdeFixedLen
    + (IF last.selRead THEN BINLOG_CHECKSUM_LEN + BINLOG_CHECKSUM_ALG_LEN ELSE 0)

\* The decoder read the fixed fields and did not stop on the version or on
\* the selector: it sized the table.
FdeTableSized == FdeFieldsRead /\ last.kind # "panic"

C25_TableLengthNeverWraps ==
  /\ FdeTableSized =>
       /\ last.textN >= FdeOverhead
       /\ TableLen(last.size, last.selRead) = U32(last.textN - FdeOverhead)
  /\ (RanReadEvent /\ last.decoded
        /\ last.header.EventType = FORMAT_DESCRIPTION_EVENT
        /\ last.size = U32(last.textN) /\ last.kind # "panic"
        /\ last.textN < FdeOverhead) =>
       (last.kind = "error" /\ last.ev.type = "nil")

(***************************************************************************)
(* C26. Every header readEvent or skipEvent decodes and goes on with has   *)
(* eventSize >= 19: the payload size eventSize - 19 it sizes the buffer,   *)
(* the read or the seek with is never a difference wrapped modulo 2^32.    *)
(***************************************************************************)
\* The last call decoded a Common Header and computed the payload size.
HeaderAccepted ==
  last.op \in {"ReadEvent", "SkipEvent"} /\ ~last.header.isNil

C26_EventSizeCoversHeader ==
  HeaderAccepted =>
    /\ ~LtU32(last.header.EventSize, U32(BINLOG_EVENT_HEADER_LEN))
    /\ FitsInt(last.size)
    /\ IntOf(last.size) + BINLOG_EVENT_HEADER_LEN = IntOf(last.header.EventSize)

(***************************************************************************)
(* C27. Over any readEvent or skipEvent call the capacity of the parser's  *)
(* buffer does not decrease; after a readEvent that decoded a header it is *)
(* at least that record's payload size (hence, never decreasing, at least  *)
(* the largest payload size so far); and whenever a parser exists it is at *)
(* least 19, the length the buffer is re-sliced to for the next header.    *)
(***************************************************************************)
C27_CapacityNeverDecreases ==
  [][ /\ phase' = "open" =>
           ~LtU32(textCap', U32(BINLOG_EVENT_HEADER_LEN))
      /\ last'.op \in {"ReadEvent", "SkipEvent"} =>
           /\ ~LtU32(textCap', textCap)
           /\ (RanReadEvent' /\ ~last'.header.isNil) =>
                ~LtU32(textCap', last'.size) ]_vars

\* A payload of 3 bytes was read into the buffer a payload of 1025 bytes had
\* been made for.
C27_Witness ==
  /\ last.op = "ReadEvent" /\ last.kind = "ok"
  /\ last.size = U32(3)
  /\ textCap = U32(InitialTextCap + 1)

(***************************************************************************)
(* C28. When the parser's checksum algorithm is CRC32 at the start of a    *)
(* readEvent call that dispatches an Xid, Query or Previous-GTIDs record,  *)
(* the buffer handed to the decoder is the payload without its 4-byte      *)
(* checksum trailer: its length is eventSize - 19 - 4.                     *)
(***************************************************************************)
\* A variant decoder other than Format-Description's was handed the buffer.
VariantDispatched ==
  /\ last.op = "ReadEvent" /\ last.decoded
  /\ last.header.EventType \in {XID_EVENT, QUERY_EVENT, PREVIOUS_GTIDS_LOG_EVENT}

C28_TrailerExcludedBeforeDispatch ==
  (VariantDispatched /\ last.fde0.ChecksumAlg = BINLOG_CHECKSUM_ALG_CRC32
     /\ ~LtU32(last.size, U32(BINLOG_CHECKSUM_LEN))) =>
    U32(last.textN + BINLOG_CHECKSUM_LEN) = last.size

(***************************************************************************)
(* C29. A readEvent or skipEvent call that starts at a record lying wholly *)
(* within the stream and succeeds leaves the cursor at the start position  *)
(* plus eventSize and has decoded the header found at the start position;  *)
(* and from any one parser state with decoder state, a readEvent and a     *)
(* skipEvent that would both succeed would leave the same cursor and       *)
(* decode the same header.                                                 *)
(***************************************************************************)
\* The last call started at a record that lies wholly within the stream.
WholeRecordAtCall ==
  /\ last.op \in {"ReadEvent", "SkipEvent"}
  /\ RemainingAtCall >= BINLOG_EVENT_HEADER_LEN
  /\ ~LtU32(LE32(LastHeaderBytes, 10), U32(BINLOG_EVENT_HEADER_LEN))
  /\ ~LtU32(U32(RemainingAfterHeader),
            SubU32(LE32(LastHeaderBytes, 10), U32(BINLOG_EVENT_HEADER_LEN)))

C29_ReadAndSkipAdvanceAlike ==
  /\ (WholeRecordAtCall /\ last.kind = "ok") =>
       /\ pos = AddPos(last.pos0, LE32(LastHeaderBytes, 10))
       /\ last.header = NewBinLogEventHeader(LastHeaderBytes)
  /\ (phase = "open" /\ fde.alloc) =>
       LET read == ReadEventOutcome
           skip == SkipOnlyOutcome
       IN  (read.kind = "ok" /\ skip.kind = "ok") =>
             (read.pos = skip.pos /\ read.header = skip.header)

\* A record with a payload was skipped without being read, by a seek over
\* the payload.
C29_Witness ==
  /\ WholeRecordAtCall /\ last.op = "SkipEvent" /\ last.fde0.alloc
  /\ last.kind = "ok" /\ last.size # U32(0) /\ last.seek = last.size
  /\ pos = AddPos(last.pos0, LE32(LastHeaderBytes, 10))

(***************************************************************************)
(* C30. In the command-line program over a finite stream, every successful *)
(* readEvent moves the cursor forward by at least 19 bytes and leaves it   *)
(* within the stream: at most Len(stream) \div 19 calls can succeed, so    *)
(* after finitely many calls one returns no event and the read loop ends.  *)
(***************************************************************************)
\* The last call was a readEvent that returned an event.
ReadSucceeded == last.op = "ReadEvent" /\ last.kind = "ok"

C30_ReadLoopTerminates ==
  /\ [][ ReadSucceeded' =>
           \/ pos'[2] > pos[2]
           \/ pos'[2] = pos[2] /\ pos'[1] >= pos[1] + BINLOG_EVENT_HEADER_LEN ]_vars
  /\ [](ReadSucceeded => (pos[2] = 0 /\ pos[1] <= Len(stream)))

\* Events were read and a later call found the end of the stream.
C30_Witness ==
  /\ last.op = "ReadEvent" /\ ReturnedEnded
  /\ held.ev.type # "nil"
  /\ pos = U32(Len(stream))
  /\ Len(stream) >= 4 + 2 * BINLOG_EVENT_HEADER_LEN

====
